---- MODULE Spec2Model ----
(***************************************************************************)
(* A model of the oxide molecular viewer: the 4x4 Matrix type and its     *)
(* product, the Quaternion type, Atom / Molecule, the Camera and the      *)
(* render loop of main().                                                  *)
(*                                                                         *)
(* f32 values are modelled in fixed point: the integer v stands for the   *)
(* real number v / Unit, arithmetic truncates toward zero where f32       *)
(* rounds to nearest, and NaN, +inf and -inf are three reserved integers  *)
(* that follow the IEEE-754 rules for special values (signed zeros are    *)
(* not distinguished).                                                     *)
(***************************************************************************)
EXTENDS Integers, Sequences, FiniteSets, TLC

VARIABLES
  \* the Matrix product applied to two operands
  ma, mb, mres,
  \* the Quaternion operations applied to a receiver qa with argument qb;
  \* qa0 and qb0 are the values both started with, qops the operations
  \* applied since, qprod the value the `*` operator returned
  qa, qb, qa0, qb0, qops, qprod,
  \* the display's framebuffer and the Camera; aspect holds the locals (w, h)
  \* of Camera::new after their normalisation and built the Camera as
  \* Camera::new returned it; moves counts set_position calls, last_position
  \* is the argument of the latest one
  display, camera, aspect, built, moves, last_position,
  \* main(): its position, the molecule, the arguments of the add_atom calls
  \* in call order, the frame counter i, the draws submitted to the current
  \* frame's target, the position of `for atom in molecule.atoms()`, the
  \* number of camera mutations of the current loop iteration, the view
  \* matrices read in it and the events display.poll_events() gave at its end
  pc, molecule, added, i, target, atom_iter, mutations, views_read, events

matrixVars == <<ma, mb, mres>>
quatVars == <<qa, qb, qa0, qb0, qops, qprod>>
cameraVars == <<display, camera, aspect, built, moves, last_position>>
mainVars == <<pc, molecule, added, i, target, atom_iter, mutations, views_read, events>>
vars == <<matrixVars, quatVars, cameraVars, mainVars>>

\* an absent value and a present one (Option)
None == <<>>
Some(x) == <<x>>

\* ------------------------------------------------------------------------
\* Bounds of the model
\* ------------------------------------------------------------------------
\* largest magnitude (in whole units) of a perturbed matrix entry
MaxEntry == 1
\* largest magnitude (in whole units) of a quaternion component of the receiver
MaxQ == 1
\* longest sequence of quaternion operations applied to one receiver
MaxOps == 2
\* most atoms added to the molecule
MaxAtoms == 2
\* most set_position calls made on one camera in the camera specification
MaxMoves == 2
\* the render loop is cut off after this many further frames
MaxFrames == 1

\* ------------------------------------------------------------------------
\* f32
\* ------------------------------------------------------------------------
\* fixed-point resolution: the integer Unit stands for 1.0
Unit == 10
NaN == 2000000000
PosInf == 1000000000
NegInf == -1000000000

IsNaN(a) == a = NaN
IsInf(a) == a = PosInf \/ a = NegInf
Abs(a) == IF a < 0 THEN -a ELSE a
Sign(a) == IF a > 0 THEN 1 ELSE IF a < 0 THEN -1 ELSE 0

\* integer division truncating toward zero (b # 0)
TruncDiv(a, b) ==
  IF (a >= 0) = (b > 0) THEN Abs(a) \div Abs(b) ELSE -(Abs(a) \div Abs(b))

RECURSIVE SqrtSearch(_, _, _)
SqrtSearch(n, lo, hi) ==
  IF lo >= hi THEN lo
  ELSE LET mid == (lo + hi + 1) \div 2
       IN IF mid * mid <= n THEN SqrtSearch(n, mid, hi)
                            ELSE SqrtSearch(n, lo, mid - 1)

\* floor of the square root of n >= 0
ISqrt(n) == SqrtSearch(n, 0, IF n < 40000 THEN n ELSE 40000)

fneg(a) ==
  IF IsNaN(a) THEN NaN
  ELSE IF a = PosInf THEN NegInf
  ELSE IF a = NegInf THEN PosInf
  ELSE -a

fadd(a, b) ==
  IF IsNaN(a) \/ IsNaN(b) THEN NaN
  ELSE IF IsInf(a) /\ IsInf(b) THEN (IF a = b THEN a ELSE NaN)
  ELSE IF IsInf(a) THEN a
  ELSE IF IsInf(b) THEN b
  ELSE a + b

fsub(a, b) == fadd(a, fneg(b))

fmul(a, b) ==
  IF IsNaN(a) \/ IsNaN(b) THEN NaN
  ELSE IF IsInf(a) \/ IsInf(b)
    THEN (IF Sign(a) * Sign(b) = 0 THEN NaN
          ELSE IF Sign(a) * Sign(b) > 0 THEN PosInf ELSE NegInf)
  ELSE TruncDiv(a * b, Unit)

fdiv(a, b) ==
  IF IsNaN(a) \/ IsNaN(b) THEN NaN
  ELSE IF IsInf(a) /\ IsInf(b) THEN NaN
  ELSE IF IsInf(a) THEN (IF Sign(a) * Sign(b) >= 0 THEN PosInf ELSE NegInf)
  ELSE IF IsInf(b) THEN 0
  ELSE IF b = 0 THEN (IF a = 0 THEN NaN ELSE IF a > 0 THEN PosInf ELSE NegInf)
  ELSE TruncDiv(a * Unit, b)

fsqrt(a) ==
  IF IsNaN(a) \/ a = NegInf THEN NaN
  ELSE IF a = PosInf THEN PosInf
  ELSE IF a < 0 THEN NaN
  ELSE ISqrt(a * Unit)

\* ------------------------------------------------------------------------
\* Matrix
\* ------------------------------------------------------------------------
\* A matrix is _contents : [[f32; 4]; 4], a tuple of four rows of four
\* entries. Tuples are indexed from 1: the entry a[r][c] of the source is
\* a[r + 1][c + 1] here.
Matrix_new(in_contents) == in_contents

contents(self) == self

\* one entry of Matrix_mul_slip
Matrix_mul_slip_entry(a, b, r, c) ==
  fadd(fadd(fadd(fmul(a[r][1], b[1][c]), fmul(a[r][2], b[2][c])),
            fmul(a[r][3], b[3][c])),
       fmul(a[r][4], IF r = 3 /\ c = 4 THEN b[4][3] ELSE b[4][c]))

\* Matrix_mul with the last term of the source's entry [2][3] reading b[3][2]
\* for b[3][3]
Matrix_mul_slip(self, in_other) ==
  LET a == self
      b == in_other
      row(r) == <<Matrix_mul_slip_entry(a, b, r, 1), Matrix_mul_slip_entry(a, b, r, 2),
                  Matrix_mul_slip_entry(a, b, r, 3), Matrix_mul_slip_entry(a, b, r, 4)>>
  IN <<row(1), row(2), row(3), row(4)>>

Matrix_mul(self, in_other) ==
  LET a == self
      b == in_other
  IN Matrix_new(<<
    <<
        fadd(fadd(fadd(fmul(a[1][1], b[1][1]), fmul(a[1][2], b[2][1])), fmul(a[1][3], b[3][1])), fmul(a[1][4], b[4][1])),
        fadd(fadd(fadd(fmul(a[1][1], b[1][2]), fmul(a[1][2], b[2][2])), fmul(a[1][3], b[3][2])), fmul(a[1][4], b[4][2])),
        fadd(fadd(fadd(fmul(a[1][1], b[1][3]), fmul(a[1][2], b[2][3])), fmul(a[1][3], b[3][3])), fmul(a[1][4], b[4][3])),
        fadd(fadd(fadd(fmul(a[1][1], b[1][4]), fmul(a[1][2], b[2][4])), fmul(a[1][3], b[3][4])), fmul(a[1][4], b[4][4]))
    >>,
    <<
        fadd(fadd(fadd(fmul(a[2][1], b[1][1]), fmul(a[2][2], b[2][1])), fmul(a[2][3], b[3][1])), fmul(a[2][4], b[4][1])),
        fadd(fadd(fadd(fmul(a[2][1], b[1][2]), fmul(a[2][2], b[2][2])), fmul(a[2][3], b[3][2])), fmul(a[2][4], b[4][2])),
        fadd(fadd(fadd(fmul(a[2][1], b[1][3]), fmul(a[2][2], b[2][3])), fmul(a[2][3], b[3][3])), fmul(a[2][4], b[4][3])),
        fadd(fadd(fadd(fmul(a[2][1], b[1][4]), fmul(a[2][2], b[2][4])), fmul(a[2][3], b[3][4])), fmul(a[2][4], b[4][4]))
    >>,
    <<
        fadd(fadd(fadd(fmul(a[3][1], b[1][1]), fmul(a[3][2], b[2][1])), fmul(a[3][3], b[3][1])), fmul(a[3][4], b[4][1])),
        fadd(fadd(fadd(fmul(a[3][1], b[1][2]), fmul(a[3][2], b[2][2])), fmul(a[3][3], b[3][2])), fmul(a[3][4], b[4][2])),
        fadd(fadd(fadd(fmul(a[3][1], b[1][3]), fmul(a[3][2], b[2][3])), fmul(a[3][3], b[3][3])), fmul(a[3][4], b[4][3])),
        fadd(fadd(fadd(fmul(a[3][1], b[1][4]), fmul(a[3][2], b[2][4])), fmul(a[3][3], b[3][4])), fmul(a[3][4], b[4][4]))
    >>,
    <<
        fadd(fadd(fadd(fmul(a[4][1], b[1][1]), fmul(a[4][2], b[2][1])), fmul(a[4][3], b[3][1])), fmul(a[4][4], b[4][1])),
        fadd(fadd(fadd(fmul(a[4][1], b[1][2]), fmul(a[4][2], b[2][2])), fmul(a[4][3], b[3][2])), fmul(a[4][4], b[4][2])),
        fadd(fadd(fadd(fmul(a[4][1], b[1][3]), fmul(a[4][2], b[2][3])), fmul(a[4][3], b[3][3])), fmul(a[4][4], b[4][3])),
        fadd(fadd(fadd(fmul(a[4][1], b[1][4]), fmul(a[4][2], b[2][4])), fmul(a[4][3], b[3][4])), fmul(a[4][4], b[4][4]))
    >>
  >>)

ZeroMatrix == Matrix_new(<<
    <<0, 0, 0, 0>>,
    <<0, 0, 0, 0>>,
    <<0, 0, 0, 0>>,
    <<0, 0, 0, 0>>
  >>)

\* ------------------------------------------------------------------------
\* Atom, Molecule
\* ------------------------------------------------------------------------
\* positions and colours are [f32;3] arrays: tuples indexed from 1 here, so
\* in_position[0] of the source is in_position[1]
\* Atom_new with the translation column multiplied by the size
Atom_new_scaled(in_mesh, in_position, in_size, in_colour) ==
  [ _mesh        |-> in_mesh,
    _position    |-> in_position,
    _size        |-> in_size,
    _colour      |-> in_colour,
    _body_matrix |-> Matrix_new(<<
        <<in_size, 0      , 0      , fmul(in_size, in_position[1])>>,
        <<0      , in_size, 0      , fmul(in_size, in_position[2])>>,
        <<0      , 0      , in_size, fmul(in_size, in_position[3])>>,
        <<0      , 0      , 0      , Unit                         >>
      >>) ]

\* Atom_new with the translation in the last row for the last column
Atom_new_transposed(in_mesh, in_position, in_size, in_colour) ==
  [ _mesh        |-> in_mesh,
    _position    |-> in_position,
    _size        |-> in_size,
    _colour      |-> in_colour,
    _body_matrix |-> Matrix_new(<<
        <<in_size       , 0             , 0             , 0   >>,
        <<0             , in_size       , 0             , 0   >>,
        <<0             , 0             , in_size       , 0   >>,
        <<in_position[1], in_position[2], in_position[3], Unit>>
      >>) ]

Atom_new(in_mesh, in_position, in_size, in_colour) ==
  [ _mesh        |-> in_mesh,
    _position    |-> in_position,
    _size        |-> in_size,
    _colour      |-> in_colour,
    _body_matrix |-> Matrix_new(<<
        <<in_size, 0      , 0      , in_position[1]>>,
        <<0      , in_size, 0      , in_position[2]>>,
        <<0      , 0      , in_size, in_position[3]>>,
        <<0      , 0      , 0      , Unit          >>
      >>) ]

mesh(self) == self._mesh
colour(self) == self._colour
body_matrix(self) == self._body_matrix

Molecule_new == <<>>

\* add_atom inserting the new atom before the others
add_atom_front(self, in_mesh, in_position, in_size, in_colour) ==
  <<Atom_new(in_mesh, in_position, in_size, in_colour)>> \o self

add_atom(self, in_mesh, in_position, in_size, in_colour) ==
  Append(self, Atom_new(in_mesh, in_position, in_size, in_colour))

atoms(self) == self

\* ------------------------------------------------------------------------
\* Camera
\* ------------------------------------------------------------------------
\* `w as f32` of a pixel count
AsF32(n) == n * Unit

\* Camera::new, the normalisation of the framebuffer dimensions: the locals
\* (w, h) after the if / else
AspectFactors(fw, fh) ==
  LET w0 == AsF32(fw)
      h0 == AsF32(fh)
  IN IF w0 > h0
       THEN LET w1 == fdiv(w0, h0)
                h1 == Unit
            IN <<w1, h1>>
       ELSE LET w1 == Unit
                h1 == fdiv(h0, w1)
            IN <<w1, h1>>

\* (in_field_of_view * PI / 360.0).tan(), tabulated for the fields of view
\* the model constructs cameras with (degrees, in fixed point)
FovValues == {60 * Unit, 90 * Unit, 120 * Unit}
TanHalfFov(fov) ==
  IF fov = 60 * Unit THEN TruncDiv(577 * Unit, 1000)
  ELSE IF fov = 90 * Unit THEN Unit
  ELSE TruncDiv(1732 * Unit, 1000)

PerspectiveMatrix(fw, fh, in_field_of_view, in_near_plane, in_far_plane) ==
  LET w == AspectFactors(fw, fh)[1]
      h == AspectFactors(fw, fh)[2]
      s == fdiv(Unit, TanHalfFov(in_field_of_view))
      n == in_near_plane
      f == in_far_plane
  IN Matrix_new(<<
       <<fdiv(s, w), 0, 0, 0>>,
       <<0, fdiv(s, h), 0, 0>>,
       <<0, 0, fdiv(fadd(f, n), fsub(f, n)), fdiv(fmul(fmul(2 * Unit, f), n), fsub(n, f))>>,
       <<0, 0, Unit, 0>>
     >>)

\* Camera::update, the matrix it assigns to _camera_matrix
CameraMatrix(position, focus) ==
  LET x == fsub(focus[1], position[1])
      y == fsub(focus[2], position[2])
      z == fsub(focus[3], position[3])
      xz == fadd(fmul(x, x), fmul(z, z))
      xyz == fadd(fadd(fmul(x, x), fmul(y, y)), fmul(z, z))
      cos_theta == fdiv(z, fsqrt(xz))
      sin_theta == fdiv(x, fsqrt(xz))
      orbital_matrix == Matrix_new(<<
          <<cos_theta, 0   , fneg(sin_theta), 0   >>,
          <<0        , Unit, 0              , 0   >>,
          <<sin_theta, 0   , cos_theta      , 0   >>,
          <<0        , 0   , 0              , Unit>>
        >>)
      cos_phi == fdiv(fsqrt(xz), fsqrt(xyz))
      sin_phi == fdiv(y, fsqrt(xyz))
      azimuthal_matrix == Matrix_new(<<
          <<Unit, 0      , 0            , 0   >>,
          <<0   , cos_phi, fneg(sin_phi), 0   >>,
          <<0   , sin_phi, cos_phi      , 0   >>,
          <<0   , 0      , 0            , Unit>>
        >>)
      translation_matrix == Matrix_new(<<
          <<Unit, 0   , 0   , fneg(position[1])>>,
          <<0   , Unit, 0   , fneg(position[2])>>,
          <<0   , 0   , Unit, fneg(position[3])>>,
          <<0   , 0   , 0   , Unit             >>
        >>)
  IN Matrix_mul(Matrix_mul(azimuthal_matrix, orbital_matrix), translation_matrix)

\* update with the operands of the view matrix product exchanged
update_exchanged(self) ==
  LET camera_matrix == CameraMatrix(self._position, self._focus)
  IN [self EXCEPT !._camera_matrix = camera_matrix,
                  !._view_matrix = Matrix_mul(camera_matrix, self._perspective_matrix)]

update(self) ==
  LET camera_matrix == CameraMatrix(self._position, self._focus)
  IN [self EXCEPT !._camera_matrix = camera_matrix,
                  !._view_matrix = Matrix_mul(self._perspective_matrix, camera_matrix)]

Camera_new(in_display, in_position, in_focus, in_field_of_view, in_near_plane, in_far_plane) ==
  update([ _position           |-> in_position,
           _focus              |-> in_focus,
           _field_of_view      |-> in_field_of_view,
           _near_plane         |-> in_near_plane,
           _far_plane          |-> in_far_plane,
           _camera_matrix      |-> ZeroMatrix,
           _perspective_matrix |-> PerspectiveMatrix(in_display[1], in_display[2],
                                     in_field_of_view, in_near_plane, in_far_plane),
           _view_matrix        |-> ZeroMatrix ])

view_matrix(self) == self._view_matrix

\* set_position assigning the focus for the position
set_position_focus(self, in_position) == update([self EXCEPT !._focus = in_position])

set_position(self, in_position) == update([self EXCEPT !._position = in_position])

\* ------------------------------------------------------------------------
\* Quaternion
\* ------------------------------------------------------------------------
\* _contents : [f32;4] is the tuple <<r, i, j, k>>
Quaternion_new(in_r, in_i, in_j, in_k) == <<in_r, in_i, in_j, in_k>>

q_r(self) == self[1]
q_i(self) == self[2]
q_j(self) == self[3]
q_k(self) == self[4]

\* invert negating all four components (the slice [0..4] for [1..4])
invert_all(self) ==
  <<fmul(self[1], -Unit), fmul(self[2], -Unit), fmul(self[3], -Unit), fmul(self[4], -Unit)>>

\* the value of self after self.invert()
invert(self) ==
  <<self[1], fmul(self[2], -Unit), fmul(self[3], -Unit), fmul(self[4], -Unit)>>

\* right_multiply with the sign of the last term of the k component flipped
right_multiply_sign(self, in_other) ==
  LET sr == self[1]
      si == self[2]
      sj == self[3]
      sk == self[4]
      or == in_other[1]
      oi == in_other[2]
      oj == in_other[3]
      ok == in_other[4]
  IN <<
       fsub(fsub(fsub(fmul(sr, or), fmul(si, oi)), fmul(sj, oj)), fmul(sk, ok)),
       fsub(fadd(fadd(fmul(sr, oi), fmul(si, or)), fmul(sj, ok)), fmul(sk, oj)),
       fsub(fadd(fadd(fmul(sr, oj), fmul(sj, or)), fmul(sk, oi)), fmul(si, ok)),
       fadd(fadd(fadd(fmul(sr, ok), fmul(sk, or)), fmul(si, oj)), fmul(sj, oi))
     >>

\* the value of self after self.right_multiply(in_other)
right_multiply(self, in_other) ==
  LET sr == q_r(self)
      si == q_i(self)
      sj == q_j(self)
      sk == q_k(self)
      or == q_r(in_other)
      oi == q_i(in_other)
      oj == q_j(in_other)
      ok == q_k(in_other)
  IN <<
       fsub(fsub(fsub(fmul(sr, or), fmul(si, oi)), fmul(sj, oj)), fmul(sk, ok)),
       fsub(fadd(fadd(fmul(sr, oi), fmul(si, or)), fmul(sj, ok)), fmul(sk, oj)),
       fsub(fadd(fadd(fmul(sr, oj), fmul(sj, or)), fmul(sk, oi)), fmul(si, ok)),
       fsub(fadd(fadd(fmul(sr, ok), fmul(sk, or)), fmul(si, oj)), fmul(sj, oi))
     >>

\* the value of self after self.left_multiply(in_other)
left_multiply(self, in_other) ==
  LET sr == q_r(self)
      si == q_i(self)
      sj == q_j(self)
      sk == q_k(self)
      or == q_r(in_other)
      oi == q_i(in_other)
      oj == q_j(in_other)
      ok == q_k(in_other)
  IN <<
       fsub(fsub(fsub(fmul(or, sr), fmul(oi, si)), fmul(oj, sj)), fmul(ok, sk)),
       fsub(fadd(fadd(fmul(or, si), fmul(oi, sr)), fmul(oj, sk)), fmul(ok, sj)),
       fsub(fadd(fadd(fmul(or, sj), fmul(oj, sr)), fmul(ok, si)), fmul(oi, sk)),
       fsub(fadd(fadd(fmul(or, sk), fmul(ok, sr)), fmul(oi, sj)), fmul(oj, si))
     >>

\* self * in_other
Quaternion_mul(self, in_other) ==
  LET sr == q_r(self)
      si == q_i(self)
      sj == q_j(self)
      sk == q_k(self)
      or == q_r(in_other)
      oi == q_i(in_other)
      oj == q_j(in_other)
      ok == q_k(in_other)
  IN Quaternion_new(
       fsub(fsub(fsub(fmul(sr, or), fmul(si, oi)), fmul(sj, oj)), fmul(sk, ok)),
       fsub(fadd(fadd(fmul(sr, oi), fmul(si, or)), fmul(sj, ok)), fmul(sk, oj)),
       fsub(fadd(fadd(fmul(sr, oj), fmul(sj, or)), fmul(sk, oi)), fmul(si, ok)),
       fsub(fadd(fadd(fmul(sr, ok), fmul(sk, or)), fmul(si, oj)), fmul(sj, oi))
     )

\* ------------------------------------------------------------------------
\* Idle values of the parts a specification does not exercise
\* ------------------------------------------------------------------------
MatrixIdle == ma = ZeroMatrix /\ mb = ZeroMatrix /\ mres = None
QuatIdle ==
  /\ qa = <<0, 0, 0, 0>> /\ qb = <<0, 0, 0, 0>>
  /\ qa0 = <<0, 0, 0, 0>> /\ qb0 = <<0, 0, 0, 0>>
  /\ qops = <<>> /\ qprod = None
CameraIdle ==
  /\ display = <<0, 0>> /\ camera = None /\ aspect = None /\ built = None
  /\ moves = 0 /\ last_position = None
MainIdle ==
  /\ pc = "idle" /\ molecule = <<>> /\ added = <<>> /\ i = 0 /\ target = <<>>
  /\ atom_iter = 0 /\ mutations = 0 /\ views_read = <<>> /\ events = <<>>

\* ------------------------------------------------------------------------
\* SpecMatrix: the Matrix product on operands drawn from MatrixInputs
\* ------------------------------------------------------------------------
Identity == Matrix_new(<<
    <<Unit, 0, 0, 0>>,
    <<0, Unit, 0, 0>>,
    <<0, 0, Unit, 0>>,
    <<0, 0, 0, Unit>>
  >>)

\* two matrices whose sixteen entries all differ (1.1 .. 2.6 and -0.3 .. 4.2,
\* in steps of 0.1 and 0.3)
DenseA == [r \in 1..4 |-> [c \in 1..4 |-> Unit + 4 * (r - 1) + c]]
DenseB == [r \in 1..4 |-> [c \in 1..4 |-> 3 * (4 * (c - 1) + r) - 6]]

EntryValues == {v * Unit : v \in (-MaxEntry)..MaxEntry} \cup {Unit \div 2}

\* m with the entry at (r, c) replaced by v
WithEntry(m, r, c, v) == [m EXCEPT ![r][c] = v]

MatrixInputs ==
  { WithEntry(m, r, c, v) :
      m \in {Identity, DenseA, DenseB}, r \in 1..4, c \in 1..4, v \in EntryValues }

MatrixInit ==
  /\ ma \in MatrixInputs
  /\ mb \in MatrixInputs
  /\ mres = None
  /\ QuatIdle /\ CameraIdle /\ MainIdle

\* mres = ma * mb
Multiply ==
  /\ mres = None
  /\ mres' = Some(Matrix_mul(ma, mb))
  /\ UNCHANGED <<ma, mb, quatVars, cameraVars, mainVars>>

MatrixNext == Multiply

SpecMatrix == MatrixInit /\ [][MatrixNext]_vars

\* ------------------------------------------------------------------------
\* SpecQuaternion: invert, right_multiply, left_multiply and `*` applied to
\* a receiver qa with the argument qb, at most MaxOps operations
\* ------------------------------------------------------------------------
QuatComponents == {v * Unit : v \in (-MaxQ)..MaxQ}

QuatReceivers == QuatComponents \X QuatComponents \X QuatComponents \X QuatComponents

QuatArguments == {
    <<Unit, 0, 0, 0>>, <<0, Unit, 0, 0>>, <<0, 0, Unit, 0>>, <<0, 0, 0, Unit>>,
    <<0, 0, 0, 0>>, <<-Unit, Unit, 0, 2 * Unit>>,
    <<2 * Unit, 3 * Unit, 5 * Unit, 7 * Unit>>,
    <<Unit \div 2, -3 * Unit, Unit + 3, -7>>
  }

QuatInit ==
  /\ qa \in QuatReceivers
  /\ qb \in QuatArguments
  /\ qa0 = qa
  /\ qb0 = qb
  /\ qops = <<>>
  /\ qprod = None
  /\ MatrixIdle /\ CameraIdle /\ MainIdle

Invert ==
  /\ Len(qops) < MaxOps
  /\ qa' = invert(qa)
  /\ qops' = Append(qops, "invert")
  /\ UNCHANGED <<qb, qa0, qb0, qprod, matrixVars, cameraVars, mainVars>>

RightMultiply ==
  /\ Len(qops) < MaxOps
  /\ qa' = right_multiply(qa, qb)
  /\ qops' = Append(qops, "right_multiply")
  /\ UNCHANGED <<qb, qa0, qb0, qprod, matrixVars, cameraVars, mainVars>>

LeftMultiply ==
  /\ Len(qops) < MaxOps
  /\ qa' = left_multiply(qa, qb)
  /\ qops' = Append(qops, "left_multiply")
  /\ UNCHANGED <<qb, qa0, qb0, qprod, matrixVars, cameraVars, mainVars>>

\* qprod = qa * qb
Mul ==
  /\ Len(qops) < MaxOps
  /\ qprod' = Some(Quaternion_mul(qa, qb))
  /\ qops' = Append(qops, "mul")
  /\ UNCHANGED <<qa, qb, qa0, qb0, matrixVars, cameraVars, mainVars>>

QuatNext == Invert \/ RightMultiply \/ LeftMultiply \/ Mul

SpecQuaternion == QuatInit /\ [][QuatNext]_vars

\* ------------------------------------------------------------------------
\* SpecCamera: Camera::new on a display, then at most MaxMoves set_position
\* calls
\* ------------------------------------------------------------------------
\* framebuffer dimensions in pixels, (w, h)
DisplaySizes == {<<4, 3>>, <<3, 4>>, <<2, 2>>, <<8, 2>>, <<0, 0>>}

\* eye positions: on the axes, off them, at the focus and straight above it
CamPositions == {
    <<0, 0, 2 * Unit>>, <<2 * Unit, 0, 0>>, <<Unit, Unit, Unit>>,
    <<-Unit, 2 * Unit, -2 * Unit>>, <<0, Unit, 0>>, <<0, 0, 0>>
  }
CamFoci == {<<0, 0, 0>>, <<Unit, 0, 0>>}
\* (near, far)
ClipPlanes == {<<Unit, 10 * Unit>>, <<Unit \div 2, 2 * Unit>>}

CameraInit ==
  /\ display \in DisplaySizes
  /\ camera = None
  /\ aspect = None
  /\ built = None
  /\ moves = 0
  /\ last_position = None
  /\ MatrixIdle /\ QuatIdle /\ MainIdle

CameraNew ==
  /\ camera = None
  /\ \E in_position \in CamPositions, in_focus \in CamFoci,
        in_field_of_view \in FovValues, planes \in ClipPlanes :
       /\ camera' = Some(Camera_new(display, in_position, in_focus,
                                    in_field_of_view, planes[1], planes[2]))
       /\ built' = camera'
  /\ aspect' = Some(AspectFactors(display[1], display[2]))
  /\ UNCHANGED <<display, moves, last_position, matrixVars, quatVars, mainVars>>

SetPosition ==
  /\ camera # None
  /\ moves < MaxMoves
  /\ \E in_position \in CamPositions :
       /\ camera' = Some(set_position(camera[1], in_position))
       /\ last_position' = Some(in_position)
  /\ moves' = moves + 1
  /\ UNCHANGED <<display, aspect, built, matrixVars, quatVars, mainVars>>

CameraNext == CameraNew \/ SetPosition

SpecCamera == CameraInit /\ [][CameraNext]_vars

\* ------------------------------------------------------------------------
\* Spec: main(). The molecule is built by at most MaxAtoms add_atom calls,
\* the camera is made, and the render loop runs until a Closed event.
\* ------------------------------------------------------------------------
\* a colour of the palette, [r/255.0, g/255.0, b/255.0]
Colour(r, g, b) ==
  <<fdiv(AsF32(r), AsF32(255)), fdiv(AsF32(g), AsF32(255)), fdiv(AsF32(b), AsF32(255))>>
orange == Colour(217, 95, 2)
blue == Colour(117, 112, 179)
green == Colour(102, 166, 30)

\* the arguments of add_atom, <<mesh, position, size, colour>>: the first
\* three atoms of main() (size 0.2) and atoms of other sizes
AtomInputs == {
    <<"cube", <<0, 0, 0>>, 2, orange>>,
    <<"tetrahedron", <<Unit \div 2, Unit \div 2, 0>>, 2, green>>,
    <<"triangle", <<Unit \div 2, -(Unit \div 2), 0>>, 2, blue>>,
    <<"triangle", <<-Unit, 0, Unit \div 2>>, Unit, blue>>,
    <<"cube", <<2 * Unit, 3 * Unit, -Unit>>, Unit + Unit \div 2, green>>,
    <<"cube", <<0, 0, 0>>, Unit, orange>>
  }

camera_position == <<0, 0, 2 * Unit>>
camera_focus == <<0, 0, 0>>
field_of_view == 90 * Unit
near_plane == Unit
far_plane == 10 * Unit

\* [2.0*angle.cos(), 0.0, 2.0*angle.sin()] for angle = i * spin_rate: the
\* point (2, 0, 0) in frame 0 and, later, some point of the circle of radius
\* 2 about the y axis
FramePositions(frame) ==
  IF frame = 0 THEN {<<2 * Unit, 0, 0>>}
  ELSE {<<2 * Unit, 0, 0>>, <<Unit + 4, 0, Unit + 4>>, <<0, 0, 2 * Unit>>,
        <<-(Unit + 4), 0, Unit + 4>>}

Init ==
  /\ pc = "molecule"
  /\ molecule = Molecule_new
  /\ added = <<>>
  /\ display \in DisplaySizes
  /\ camera = None
  /\ aspect = None
  /\ built = None
  /\ moves = 0
  /\ last_position = None
  /\ i = 0
  /\ target = <<>>
  /\ atom_iter = 0
  /\ mutations = 0
  /\ views_read = <<>>
  /\ events = <<>>
  /\ MatrixIdle /\ QuatIdle

\* molecule.add_atom(mesh, position, size, colour)
AddAtom ==
  /\ pc = "molecule"
  /\ Len(molecule) < MaxAtoms
  /\ \E in \in AtomInputs :
       /\ molecule' = add_atom(molecule, in[1], in[2], in[3], in[4])
       /\ added' = Append(added, in)
  /\ UNCHANGED <<pc, i, target, atom_iter, mutations, views_read, events,
                 matrixVars, quatVars, cameraVars>>

\* let mut camera = Camera::new(...), and what follows up to `loop`
MakeCamera ==
  /\ pc = "molecule"
  /\ camera' = Some(Camera_new(display, camera_position, camera_focus,
                               field_of_view, near_plane, far_plane))
  /\ built' = camera'
  /\ aspect' = Some(AspectFactors(display[1], display[2]))
  /\ i' = 0
  /\ pc' = "loop"
  /\ UNCHANGED <<display, moves, last_position, molecule, added, target,
                 atom_iter, mutations, views_read, events, matrixVars, quatVars>>

\* BeginFrame without the set_position call
BeginFrame_stale ==
  /\ pc = "loop"
  /\ target' = <<>>
  /\ atom_iter' = 0
  /\ events' = <<>>
  /\ pc' = "draw"
  /\ UNCHANGED <<camera, last_position, moves, mutations, display, aspect, built,
                 molecule, added, i, views_read, matrixVars, quatVars>>

\* the top of the loop body: camera.set_position(...), display.draw(), clear
BeginFrame ==
  /\ pc = "loop"
  /\ \E in_position \in FramePositions(i) :
       /\ camera' = Some(set_position(camera[1], in_position))
       /\ last_position' = Some(in_position)
  /\ moves' = moves + 1
  /\ mutations' = mutations + 1
  /\ target' = <<>>
  /\ atom_iter' = 0
  /\ events' = <<>>
  /\ pc' = "draw"
  /\ UNCHANGED <<display, aspect, built, molecule, added, i, views_read,
                 matrixVars, quatVars>>

\* one turn of `for atom in molecule.atoms()`: the draw of the next atom
DrawAtom ==
  /\ pc = "draw"
  /\ atom_iter < Len(atoms(molecule))
  /\ LET atom == atoms(molecule)[atom_iter + 1]
         matrix == Matrix_mul(view_matrix(camera[1]), body_matrix(atom))
     IN target' = Append(target, [ mesh   |-> mesh(atom),
                                   matrix |-> contents(matrix),
                                   colour |-> colour(atom) ])
  /\ views_read' = Append(views_read, view_matrix(camera[1]))
  /\ atom_iter' = atom_iter + 1
  /\ UNCHANGED <<pc, molecule, added, i, mutations, events, matrixVars, quatVars, cameraVars>>

\* the for loop is over: target.finish()
FinishFrame ==
  /\ pc = "draw"
  /\ atom_iter = Len(atoms(molecule))
  /\ pc' = "poll"
  /\ UNCHANGED <<molecule, added, i, target, atom_iter, mutations, views_read,
                 events, matrixVars, quatVars, cameraVars>>

\* what display.poll_events() may give: no event, an event that is not
\* Closed, and a Closed event before or after another
EventBatches == {<<>>, <<"Other">>, <<"Other", "Closed">>, <<"Closed", "Other">>}

\* `for ev in display.poll_events()`: some ev matches Event::Closed
HasClosed(evs) == \E n \in 1..Len(evs) : evs[n] = "Closed"

\* PollClosed with the Closed arm doing nothing, as the `_` arm does
PollClosed_ignored ==
  /\ pc = "poll"
  /\ i < MaxFrames
  /\ \E evs \in EventBatches : HasClosed(evs) /\ events' = evs
  /\ i' = i + 1
  /\ mutations' = 0
  /\ views_read' = <<>>
  /\ pc' = "loop"
  /\ UNCHANGED <<molecule, added, target, atom_iter, matrixVars, quatVars, cameraVars>>

\* display.poll_events() holds a Closed event: return
PollClosed ==
  /\ pc = "poll"
  /\ \E evs \in EventBatches : HasClosed(evs) /\ events' = evs
  /\ pc' = "done"
  /\ UNCHANGED <<molecule, added, i, target, atom_iter, mutations, views_read,
                 matrixVars, quatVars, cameraVars>>

\* display.poll_events() holds no Closed event: i += 1 and the next iteration
PollOther ==
  /\ pc = "poll"
  /\ i < MaxFrames
  /\ \E evs \in EventBatches : ~HasClosed(evs) /\ events' = evs
  /\ i' = i + 1
  /\ mutations' = 0
  /\ views_read' = <<>>
  /\ pc' = "loop"
  /\ UNCHANGED <<molecule, added, target, atom_iter, matrixVars, quatVars, cameraVars>>

Next ==
  \/ AddAtom
  \/ MakeCamera
  \/ BeginFrame
  \/ DrawAtom
  \/ FinishFrame
  \/ PollClosed
  \/ PollOther

Spec == Init /\ [][Next]_vars

\* ------------------------------------------------------------------------
\* Properties
\* ------------------------------------------------------------------------
RECURSIVE SumProducts(_, _, _, _, _)
\* a[r][1]*b[1][c] + ... + a[r][k]*b[k][c] on finite entries
SumProducts(a, b, r, c, k) ==
  IF k = 0 THEN 0
  ELSE SumProducts(a, b, r, c, k - 1) + TruncDiv(a[r][k] * b[k][c], Unit)

\* C1: the Matrix `*` operator returns the row-by-column product of its
\* operands: every entry of the result is the sum over k of a[r][k]*b[k][c]
\* (r, c, k over the four rows and columns), with a and b the operands as
\* they are after the call.
C1_RowByColumn ==
  mres # None =>
    \A r \in 1..4 : \A c \in 1..4 :
      contents(mres[1])[r][c] = SumProducts(ma, mb, r, c, 4)

\* a product of two different dense operands, none of whose entries is 0
C1_Witness ==
  /\ mres # None
  /\ ma # mb
  /\ ma # Identity /\ mb # Identity
  /\ \A r \in 1..4 : \A c \in 1..4 :
       ma[r][c] # 0 /\ mb[r][c] # 0 /\ mres[1][r][c] # 0

\* the product of two basis quaternions, 1 = 1, i = 2, j = 3, k = 4, as
\* <<sign, basis element>>: i*i = j*j = k*k = -1, i*j = k, j*k = i, k*i = j,
\* and the reversed products negated
BasisProduct(m, n) ==
  IF m = 1 THEN <<1, n>>
  ELSE IF n = 1 THEN <<1, m>>
  ELSE IF m = n THEN <<-1, 1>>
  ELSE IF <<m, n>> = <<2, 3>> THEN <<1, 4>>
  ELSE IF <<m, n>> = <<3, 4>> THEN <<1, 2>>
  ELSE IF <<m, n>> = <<4, 2>> THEN <<1, 3>>
  ELSE IF <<m, n>> = <<3, 2>> THEN <<-1, 4>>
  ELSE IF <<m, n>> = <<4, 3>> THEN <<-1, 2>>
  ELSE <<-1, 3>>

RECURSIVE HamiltonSum(_, _, _, _)
\* the terms a[m']*b[n] of the component c of a.b, for m' <= m
HamiltonSum(a, b, c, m) ==
  IF m = 0 THEN 0
  ELSE LET n == CHOOSE n \in 1..4 : BasisProduct(m, n)[2] = c
       IN HamiltonSum(a, b, c, m - 1)
            + BasisProduct(m, n)[1] * TruncDiv(a[m] * b[n], Unit)

\* the Hamilton product a.b
Hamilton(a, b) == [c \in 1..4 |-> HamiltonSum(a, b, c, 4)]

\* C6: a.right_multiply(b) leaves a equal to the Hamilton product a.b, which
\* is what a * b returns; a.left_multiply(b) leaves a equal to b.a, which is
\* what b.right_multiply(a) leaves in b; b is unchanged by every call.
C6_HamiltonProduct ==
  /\ qb = qb0
  /\ qops = <<"right_multiply">> =>
       qa = Hamilton(qa0, qb0) /\ qa = Quaternion_mul(qa0, qb0)
  /\ qops = <<"mul">> => qprod = Some(Hamilton(qa0, qb0)) /\ qa = qa0
  /\ qops = <<"mul", "right_multiply">> => qprod = Some(qa)
  /\ qops = <<"left_multiply">> =>
       qa = Hamilton(qb0, qa0) /\ qa = right_multiply(qb0, qa0)

\* a * b was taken and a.right_multiply(b) called, on operands that do not
\* commute
C6_Witness ==
  /\ qops = <<"mul", "right_multiply">>
  /\ qprod = Some(qa)
  /\ qa # qa0
  /\ Hamilton(qa0, qb0) # Hamilton(qb0, qa0)

\* C7: invert() changes (r, i, j, k) to (r, -i, -j, -k), and invert()
\* applied twice returns the original quaternion.
C7_InvertConjugates ==
  /\ qops = <<"invert">> => qa = <<qa0[1], -qa0[2], -qa0[3], -qa0[4]>>
  /\ qops = <<"invert", "invert">> => qa = qa0

\* invert() was applied twice to a quaternion whose four components are not 0
C7_Witness ==
  /\ qops = <<"invert", "invert">>
  /\ \A c \in 1..4 : qa0[c] # 0

\* the atoms, by their place in the molecule
AtomIndices == 1..Len(atoms(molecule))

\* C2: Atom::new produces a body matrix whose diagonal is (s, s, s, 1), whose
\* last column is (px, py, pz, 1) and whose every other entry is 0, for the
\* size s and the position (px, py, pz) it was given.
C2_BodyMatrix ==
  /\ Len(molecule) = Len(added)
  /\ \A n \in AtomIndices :
       LET position == added[n][2]
           size == added[n][3]
           m == contents(body_matrix(molecule[n]))
       IN \A r \in 1..4 : \A c \in 1..4 :
            m[r][c] = IF r = c THEN (IF r = 4 THEN Unit ELSE size)
                      ELSE IF c = 4 THEN position[r]
                      ELSE 0

\* the molecule holds the atom of size 0.2 at (0.5, -0.5, 0)
C2_Witness ==
  \E n \in AtomIndices :
    /\ added[n][3] = 2
    /\ added[n][2] = <<Unit \div 2, -(Unit \div 2), 0>>
    /\ body_matrix(molecule[n])[1] = <<2, 0, 0, Unit \div 2>>
    /\ body_matrix(molecule[n])[2] = <<0, 2, 0, -(Unit \div 2)>>

\* scale(size) = diag(size, size, size, 1)
Scale(size) == <<
    <<size, 0, 0, 0>>,
    <<0, size, 0, 0>>,
    <<0, 0, size, 0>>,
    <<0, 0, 0, Unit>>
  >>

\* translate(position): the identity with the last column (px, py, pz, 1)
Translate(position) == <<
    <<Unit, 0, 0, position[1]>>,
    <<0, Unit, 0, position[2]>>,
    <<0, 0, Unit, position[3]>>,
    <<0, 0, 0, Unit>>
  >>

\* C3, as claimed: every atom's body matrix equals the Matrix product
\* scale(size) * translate(position).
C3_ScaleTimesTranslate ==
  \A n \in AtomIndices :
    body_matrix(molecule[n]) = Matrix_mul(Scale(added[n][3]), Translate(added[n][2]))

\* C3, amended: after any sequence of add_atom calls and render frames every
\* atom's body matrix equals the Matrix product
\* translate(position) * scale(size).
C3_TranslateTimesScale ==
  \A n \in AtomIndices :
    body_matrix(molecule[n]) = Matrix_mul(Translate(added[n][2]), Scale(added[n][3]))

\* a second frame was rendered with an atom whose size is not 1 and whose
\* position is not the origin, so that the two products differ
C3_Witness ==
  /\ pc = "poll"
  /\ i = 1
  /\ \E n \in AtomIndices :
       /\ added[n][3] # Unit
       /\ added[n][2] # <<0, 0, 0>>
       /\ Matrix_mul(Translate(added[n][2]), Scale(added[n][3]))
            # Matrix_mul(Scale(added[n][3]), Translate(added[n][2]))

\* the for loop of the current frame has run to its end
FrameDrawn == pc \in {"poll", "done"} \/ (pc = "loop" /\ i > 0)

\* C4: in every frame a molecule of N atoms causes exactly N draw
\* submissions, one per atom in the order the atoms were added; the n-th
\* uses the mesh and colour given to the n-th add_atom call and the product
\* view_matrix * body_matrix of the n-th atom.
C4_DrawsInOrder ==
  /\ pc = "draw" => Len(target) = atom_iter /\ atom_iter <= Len(added)
  /\ FrameDrawn => Len(target) = Len(added)
  /\ pc \in {"draw", "poll", "done"} \/ (pc = "loop" /\ i > 0) =>
       \A n \in 1..Len(target) :
         /\ target[n].mesh = added[n][1]
         /\ target[n].colour = added[n][4]
         /\ target[n].matrix =
              Matrix_mul(view_matrix(camera[1]), body_matrix(molecule[n]))
         /\ molecule[n] = Atom_new(added[n][1], added[n][2], added[n][3], added[n][4])

\* the second frame of a molecule of MaxAtoms different atoms is drawn
C4_Witness ==
  /\ pc = "poll"
  /\ i = 1
  /\ Len(target) = MaxAtoms
  /\ \A m \in 1..Len(target) : \A n \in 1..Len(target) :
       m # n => target[m] # target[n] /\ target[m].mesh # target[n].mesh

\* C5: set_position(p) sets the eye position to p and leaves the perspective
\* matrix, the focus, the field of view and the near and far planes as
\* Camera::new made them, after any number of calls.
C5_SetPositionKeepsPerspective ==
  moves > 0 =>
    /\ camera[1]._position = last_position[1]
    /\ camera[1]._perspective_matrix = built[1]._perspective_matrix
    /\ camera[1]._focus = built[1]._focus
    /\ camera[1]._field_of_view = built[1]._field_of_view
    /\ camera[1]._near_plane = built[1]._near_plane
    /\ camera[1]._far_plane = built[1]._far_plane

\* two set_position calls have moved the eye and changed the view matrix
C5_Witness ==
  /\ moves = 2
  /\ camera[1]._position # built[1]._position
  /\ view_matrix(camera[1]) # view_matrix(built[1])
  /\ camera[1]._camera_matrix # built[1]._camera_matrix

\* C8: in every iteration of the render loop the camera is mutated once, by
\* the set_position call before the first draw; every view matrix read in
\* the frame is the one derived from that frame's position, and one is read
\* per draw.
C8_MutateThenRead ==
  /\ pc = "loop" => mutations = 0
  /\ pc \in {"draw", "poll", "done"} =>
       /\ mutations = 1
       /\ Len(views_read) = Len(target)
       /\ camera[1]._position = last_position[1]
       /\ \A n \in 1..Len(views_read) : views_read[n] = views_read[1]
       /\ views_read # <<>> =>
            views_read[1] = Matrix_mul(camera[1]._perspective_matrix,
                              CameraMatrix(last_position[1], camera[1]._focus))

\* the second frame has drawn two atoms with a view matrix that is not the
\* first frame's
C8_Witness ==
  /\ pc = "poll"
  /\ i = 1
  /\ Len(views_read) = 2
  /\ last_position # Some(<<2 * Unit, 0, 0>>)
  /\ views_read[1] # view_matrix(built[1])

\* C9: once Camera::new has returned, and after any set_position calls,
\* view_matrix is the Matrix product perspective_matrix * camera_matrix with
\* camera_matrix derived from the current position and focus; neither is the
\* all-zero matrix Camera::new first writes.
C9_ViewIsPerspectiveTimesCamera ==
  camera # None =>
    /\ camera[1]._camera_matrix = CameraMatrix(camera[1]._position, camera[1]._focus)
    /\ view_matrix(camera[1])
         = Matrix_mul(camera[1]._perspective_matrix, camera[1]._camera_matrix)
    /\ view_matrix(camera[1]) # ZeroMatrix
    /\ camera[1]._camera_matrix # ZeroMatrix

\* a camera moved twice, off the axes, whose view matrix depends on the order
\* of the product
C9_Witness ==
  /\ moves = 2
  /\ camera[1]._position = <<Unit, Unit, Unit>>
  /\ view_matrix(camera[1])
       # Matrix_mul(camera[1]._camera_matrix, camera[1]._perspective_matrix)

\* C10: Camera::new normalises the framebuffer dimensions (w, h) to the
\* factors (w/h, 1) for w > h and (1, h/w) for w <= h.
C10_AspectFactors ==
  aspect # None =>
    LET w == AsF32(display[1])
        h == AsF32(display[2])
    IN aspect[1] = IF w > h THEN <<fdiv(w, h), Unit>> ELSE <<Unit, fdiv(h, w)>>

\* C11: the render loop ends only by a Closed event. A poll that gives a
\* Closed event ends the program with the frame counter as it was and no
\* further set_position call or draw submission, then and ever after; a poll
\* that gives none leads to the top of the loop with the frame counter
\* increased by one, where nothing keeps the next frame from starting (the
\* camera exists and there is a position for the frame) and the only step is
\* its start, with one set_position call and an empty target; and the poll
\* can give no Closed event as long as the frame counter is below MaxFrames,
\* where the model is cut off.
C11_EndsOnlyByClosed ==
  [][ /\ pc = "poll" /\ HasClosed(events') =>
           pc' = "done" /\ i' = i /\ moves' = moves /\ target' = target
             /\ camera' = camera
      /\ pc = "poll" /\ ~HasClosed(events') =>
           pc' = "loop" /\ i' = i + 1 /\ camera' # None /\ FramePositions(i') # {}
      /\ pc = "poll" /\ i < MaxFrames => ENABLED PollOther
      /\ pc = "loop" =>
           pc' = "draw" /\ i' = i /\ moves' = moves + 1 /\ target' = <<>>
      /\ pc' = "done" => pc \in {"poll", "done"} /\ HasClosed(events')
      /\ pc = "done" =>
           pc' = "done" /\ moves' = moves /\ target' = target /\ camera' = camera
    ]_vars

\* the loop went on after a poll without a Closed event and ended, in its
\* second frame, by a Closed event that came after another event
C11_Witness ==
  /\ pc = "done"
  /\ i = 1
  /\ events = <<"Other", "Closed">>
  /\ moves = 2
  /\ Len(target) = MaxAtoms

====
